---- MODULE Spec2Model ----
(***************************************************************************)
(* Model of onlykey/client.py: the host-side OnlyKey driver.  One session  *)
(* object runs one operation at a time (the code is single-threaded and    *)
(* blocking).  The state is the platform variant, the module-global        *)
(* slotnum, the position of the running operation, the reports written to  *)
(* the HID handle, and the local variables of the segment-polling code.    *)
(* Python 3 semantics are kept where they decide behaviour: truthiness of  *)
(* optional arguments, bytes versus str comparison, bytes.hex(), utf-8     *)
(* encoding of str payloads, indexing bytes giving int.                    *)
(***************************************************************************)
EXTENDS Integers, Sequences, FiniteSets, TLC

VARIABLES os_name,     \* os.name: "nt" or "posix" (fixed at import)
          slotnum,     \* module-global slotnum; None until slot() is called
          op,          \* the running method of OnlyKey, "" when idle
          pc,          \* position inside the running method
          args,        \* the arguments of the running method
          written,     \* the reports handed to self._hid.write, in order
          chunks,      \* the local list `chunks` of a chunked sender
          outcome,     \* "none" | "returned" | "raised"
          error,       \* the exception raised, "none" if none
          result,      \* the returned byte buffer
          seg,         \* number of the result segment being read (1..8)
          tries,       \* iterations done of the current `for _ in range(10)`
          segs,        \* ok_pubkey1..ok_pubkeyN as read so far
          segLog,      \* per finished segment: reads used, largest read seen
          curMax,      \* largest read size seen in the current segment
          segFaulty,   \* some read of the current segment was not full-size
          faults,      \* segments that saw a read that was not full-size
          nreads,      \* reads issued for the result since the request
          delivered,   \* full-size reports the device has handed out
          conn_tries,  \* the local `tries` of OnlyKey.__init__
          conn_log,    \* per call of _connect: what it raised, endpoints matched
          hid,         \* path of the handle in self._hid, NoHandle if unset
          opened,      \* paths of the handles hid.Device has opened, in order
          buttons,     \* (b1, b2, b3) of the challenge code, <<>> if not derived
          slot_name,   \* self.name of the Slot just created, "" if none
          mine         \* the slot this session last passed to slot(), or None

vars == <<os_name, slotnum, op, pc, args, written, chunks, outcome, error,
          result, seg, tries, segs, segLog, curMax, segFaulty, faults,
          nreads, delivered, conn_tries, conn_log, hid, opened, buttons,
          slot_name, mine>>

(***************************************************************************)
(* Bounds of the model.                                                    *)
(***************************************************************************)
MaxPayloadLen == 117       \* longest payload given to a chunked sender
MaxFaultySegments == 1     \* segments per operation with a short/empty read
MaxSlotNum == 62           \* largest number a Slot is created with
MaxSmallTimestamp == 260   \* set_time is called with every timestamp up to it

(***************************************************************************)
(* Module constants.                                                       *)
(***************************************************************************)
None == -1                 \* Python None for an optional byte-valued argument

MAX_INPUT_REPORT_SIZE == IF os_name = "nt" THEN 65 ELSE 64

\* the header with the report-id byte on every platform
MESSAGE_HEADER_ReportIdEverywhere == <<0, 255, 255, 255, 255>>

MESSAGE_HEADER ==
    IF os_name = "nt" THEN <<0, 255, 255, 255, 255>> ELSE <<255, 255, 255, 255>>

MAX_LARGE_PAYLOAD_SIZE == 58

OKGETPUBKEY == 236
OKSIGNCHALLENGE == 237
OKSETPRIV == 239
OKDECRYPT == 240
OKSETSLOT == 230
OKSETTIME == 228
LABEL == 1

EXPECTED_PARTS == 8        \* ok_pubkey1 .. ok_pubkey8
RETRIES == 10              \* for _ in range(10)
READ_SIZE == 64            \* read_bytes(64)

(***************************************************************************)
(* Python values.  A payload is a record: its Python type and its items    *)
(* (byte values for bytes/list/int, code points for str).                  *)
(***************************************************************************)
Min(a, b) == IF a < b THEN a ELSE b

PyNone == [kind |-> "none", data |-> <<>>]
PyBytes(s) == [kind |-> "bytes", data |-> s]
PyStr(s) == [kind |-> "str", data |-> s]
PyList(s) == [kind |-> "list", data |-> s]
PyInt(n) == [kind |-> "int", data |-> <<n>>]
PyOther(s) == [kind |-> "other", data |-> s]

\* bool(payload): None, 0 and empty containers are falsy
PyTruthy(p) ==
    IF p.kind = "none" THEN FALSE
    ELSE IF p.kind = "int" THEN p.data[1] # 0
    ELSE Len(p.data) > 0

\* str.encode("utf-8") for code points below 2048
RECURSIVE Utf8(_)
Utf8(s) ==
    IF s = <<>> THEN <<>>
    ELSE LET c == Head(s)
         IN (IF c < 128 THEN <<c>> ELSE <<192 + (c \div 64), 128 + (c % 64)>>)
            \o Utf8(Tail(s))

Zeros(n) == [i \in 1..n |-> 0]

\* a byte string of length n whose bytes differ from place to place
Payload(n, seed) == [i \in 1..n |-> (seed + i) % 256]

(***************************************************************************)
(* Slots.                                                                  *)
(***************************************************************************)
SLOTS_NAME ==
    1 :> "1a" @@ 2 :> "2a" @@ 3 :> "3a" @@ 4 :> "4a"
    @@ 5 :> "5a" @@ 6 :> "6a" @@ 7 :> "1b" @@ 8 :> "2b"
    @@ 9 :> "3b" @@ 10 :> "4b" @@ 11 :> "5b" @@ 12 :> "6b"
    @@ 25 :> "RSA Key 1" @@ 26 :> "RSA Key 2" @@ 27 :> "RSA Key 3" @@ 28 :> "RSA Key 4"
    @@ 29 :> "ECC Key 1" @@ 30 :> "ECC Key 2" @@ 31 :> "ECC Key 3" @@ 32 :> "ECC Key 4"
    @@ 33 :> "ECC Key 5" @@ 34 :> "ECC Key 6" @@ 35 :> "ECC Key 7" @@ 36 :> "ECC Key 8"
    @@ 37 :> "ECC Key 9" @@ 38 :> "ECC Key 10" @@ 39 :> "ECC Key 11" @@ 40 :> "ECC Key 12"
    @@ 41 :> "ECC Key 13" @@ 42 :> "ECC Key 14" @@ 43 :> "ECC Key 15" @@ 44 :> "ECC Key 16"
    @@ 45 :> "ECC Key 17" @@ 46 :> "ECC Key 18" @@ 47 :> "ECC Key 19" @@ 48 :> "ECC Key 20"
    @@ 49 :> "ECC Key 21" @@ 50 :> "ECC Key 22" @@ 51 :> "ECC Key 23" @@ 52 :> "ECC Key 24"
    @@ 53 :> "ECC Key 25" @@ 54 :> "ECC Key 26" @@ 55 :> "ECC Key 27" @@ 56 :> "ECC Key 28"
    @@ 57 :> "ECC Key 29" @@ 58 :> "ECC Key 30" @@ 59 :> "ECC Key 31" @@ 60 :> "ECC Key 32"

(***************************************************************************)
(* send_message: builds one report and writes it.  The result is the       *)
(* exception raised ("none" if none) and the reports written.              *)
(***************************************************************************)
\* the bytes appended for `payload` (lines 239-251)
PayloadBytes(p) ==
    IF p.kind = "str" THEN Utf8(p.data) ELSE p.data

\* while len(raw_bytes) < MAX_INPUT_REPORT_SIZE: raw_bytes += bytes([0])
ZeroPad(raw) ==
    IF Len(raw) < MAX_INPUT_REPORT_SIZE
    THEN raw \o Zeros(MAX_INPUT_REPORT_SIZE - Len(raw))
    ELSE raw

\* raw_bytes before padding.  `if msg:` and `if message_field:` test enum
\* members, which are always truthy; `if slot_id:` tests an int, so both
\* None and 0 skip the slot byte.
RawBytes(payload, msg, slot_id, message_field) ==
    MESSAGE_HEADER
    \o (IF msg # None THEN <<msg>> ELSE <<>>)
    \o (IF slot_id # None /\ slot_id # 0 THEN <<slot_id>> ELSE <<>>)
    \o (IF message_field # None THEN <<message_field>> ELSE <<>>)
    \o (IF PyTruthy(payload) THEN PayloadBytes(payload) ELSE <<>>)

\* send_message that writes the report before it looks at the payload type
send_message_WriteFirst(payload, msg, slot_id, message_field) ==
    [exc |-> IF PyTruthy(payload) /\ payload.kind = "other"
             THEN "Exception: payload must be either str or list" ELSE "none",
     out |-> <<ZeroPad(MESSAGE_HEADER)>>]

send_message(payload, msg, slot_id, message_field) ==
    IF PyTruthy(payload) /\ payload.kind = "other"
    THEN [exc |-> "Exception: payload must be either str or list", out |-> <<>>]
    ELSE [exc |-> "none",
          out |-> <<ZeroPad(RawBytes(payload, msg, slot_id, message_field))>>]

\* set_rsa_key: payload = [key_type, slot] + [ord(c) for c in key]
set_rsa_key(key_type, slot, key) ==
    send_message(PyList(<<key_type, slot>> \o key), OKSETPRIV, None, None)

\* set_ecc_key: payload = bytes([key_type, slot]) + key
set_ecc_key(key_type, slot, key) ==
    send_message(PyBytes(<<key_type, slot>> \o key), OKSETPRIV, None, None)

(***************************************************************************)
(* The chunked senders.                                                    *)
(***************************************************************************)
\* len(range(0, n, step))
RangeLen(n, step) == (n + step - 1) \div step

\* Chunks with the slice one byte short of the step: a byte is lost per chunk
Chunks_ShortSlice(payload, size, step) ==
    [j \in 1..RangeLen(Len(payload), step) |->
        SubSeq(payload, (j - 1) * step + 1,
               Min((j - 1) * step + size - 1, Len(payload)))]

\* Chunks with the slice one byte longer than the step
Chunks_LongSlice(payload, size, step) ==
    [j \in 1..RangeLen(Len(payload), step) |->
        SubSeq(payload, (j - 1) * step + 1,
               Min((j - 1) * step + size + 1, Len(payload)))]

\* [payload[x:x+size] for x in range(0, len(payload), step)]
Chunks(payload, size, step) ==
    [j \in 1..RangeLen(Len(payload), step) |->
        SubSeq(payload, (j - 1) * step + 1,
               Min((j - 1) * step + size, Len(payload)))]

\* the marker of send_large_message: 255, or the size when len(chunk) < 58
Marker1(chunk) == IF Len(chunk) < 58 THEN Len(chunk) ELSE 255

\* the marker of send_large_message2: 255, or the size when len(chunk) < 57
Marker2(chunk) == IF Len(chunk) < 57 THEN Len(chunk) ELSE 255

send_large_message(payload, msg) ==
    IF msg = None
    THEN [exc |-> "Exception: Missing msg", out |-> <<>>, chunks |-> <<>>]
    ELSE LET cs == Chunks(payload, MAX_LARGE_PAYLOAD_SIZE, 58)
         IN [exc |-> "none",
             out |-> [j \in 1..Len(cs) |->
                        send_message(PyBytes(<<Marker1(cs[j])>> \o cs[j]),
                                     msg, None, None).out[1]],
             chunks |-> cs]

send_large_message2(payload, msg, slot_id) ==
    IF msg = None
    THEN [exc |-> "Exception: Missing msg", out |-> <<>>, chunks |-> <<>>]
    ELSE LET cs == Chunks(payload, MAX_LARGE_PAYLOAD_SIZE - 1, 57)
         IN [exc |-> "none",
             out |-> [j \in 1..Len(cs) |->
                        send_message(PyBytes(<<slot_id, Marker2(cs[j])>> \o cs[j]),
                                     msg, None, None).out[1]],
             chunks |-> cs]

\* send_large_message3 builds current_payload for every chunk but calls
\* send_message once, after the loop, with the last one; with no chunk the
\* name current_payload is unbound.
send_large_message3(payload, msg, slot_id, key_type) ==
    IF msg = None
    THEN [exc |-> "Exception: Missing msg", out |-> <<>>, chunks |-> <<>>]
    ELSE LET cs == Chunks(payload, MAX_LARGE_PAYLOAD_SIZE - 1, 57)
         IN IF Len(cs) = 0
            THEN [exc |-> "UnboundLocalError", out |-> <<>>, chunks |-> cs]
            ELSE [exc |-> "none",
                  out |-> send_message(
                              PyBytes(<<slot_id, key_type>> \o cs[Len(cs)]),
                              msg, None, None).out,
                  chunks |-> cs]

(***************************************************************************)
(* set_time.  A hex string is the sequence of its digit values.            *)
(***************************************************************************)
\* format(int(timestamp), 'x')
RECURSIVE HexDigits(_)
HexDigits(n) ==
    IF n < 16 THEN <<n>> ELSE HexDigits(n \div 16) \o <<n % 16>>

\* the digits left as format() gave them
ZFillEven_Identity(ds) == ds

\* s.zfill(len(s) + len(s) % 2)
ZFillEven(ds) == IF Len(ds) % 2 = 1 THEN <<0>> \o ds ELSE ds

\* [int(s[i: i+2], 16) for i in range(0, len(s), 2)]
HexPairs(ds) ==
    [j \in 1..RangeLen(Len(ds), 2) |->
        IF 2 * j <= Len(ds) THEN 16 * ds[2 * j - 1] + ds[2 * j]
        ELSE ds[2 * j - 1]]

set_time(timestamp) ==
    send_message(PyList(HexPairs(ZFillEven(HexDigits(timestamp)))),
                 OKSETTIME, None, None)

(***************************************************************************)
(* The inputs the operations are called with.                              *)
(***************************************************************************)
PayloadSeeds == {0, 250}

LargePayloads ==
    {Payload(n, seed) : n \in 0..MaxPayloadLen, seed \in PayloadSeeds}

\* payload lengths around the capacity of one report
FrameLens == {0, 1, 2, 56, 57, 58, 59, 60, 61}

SendPayloads ==
    {PyNone, PyInt(0), PyInt(7), PyStr(<<97>>), PyStr(<<132>>),
     PyList(<<1, 2, 3>>), PyOther(<<>>), PyOther(<<1>>)}
    \cup {PyBytes(Payload(n, 0)) : n \in FrameLens}

MsgArgs == {None, OKSETSLOT}
SlotIdArgs == {None, 0, 1}
FieldArgs == {None, LABEL}
KeyLens == {32, 57, 58, 128}
SlotArgs == {1, 132}
SenderSlotIds == {0, 101}

\* the timestamps set_time is called with
Timestamps ==
    (0..MaxSmallTimestamp)
    \cup {4095, 4096, 65535, 65536, 1048576, 16777215, 16777216, 1700000000,
          2147483647}

NoArgs == [payload |-> PyNone, msg |-> None, slot_id |-> None,
           message_field |-> None, key_type |-> None]

(***************************************************************************)
(* Reads.  A read returns a value of n bytes; a full-size report carries    *)
(* the number of the report the device handed out, which fixes its bytes.  *)
(***************************************************************************)
ReadSizes == {0, 32, READ_SIZE}

ReadValue(n, id) == [n |-> n, id |-> id]

ReportBytes(v) == [i \in 1..v.n |-> (31 * v.id + i) % 256]

\* len() of what read_bytes returns: out.hex() has two characters per byte
PyLen(v, to_str) == IF to_str THEN 2 * v.n ELSE v.n

\* `x == ''` for what read_bytes returns: a bytes object never equals a str
EqualsEmptyStr(v, to_str) == to_str /\ v.n = 0

\* `not x`: empty bytes and the empty str are both falsy
PyNot(v) == v.n = 0

\* the flag to_str the operation passes to read_bytes
ToStr(o) == o \in {"sign", "decrypt"}

\* ok_pubkey1 + ok_pubkey2 + ... + ok_pubkey8
RECURSIVE Concat(_)
Concat(ss) ==
    IF ss = <<>> THEN <<>> ELSE ReportBytes(Head(ss)) \o Concat(Tail(ss))

(***************************************************************************)
(* The challenge code.                                                     *)
(***************************************************************************)
\* stand-in for hashlib.sha256(...).digest(): 32 bytes fixed by the input
Sha256(m) ==
    [i \in 1..32 |-> (7 * Len(m) + (IF Len(m) > 0 THEN m[1] ELSE 0) + 13 * i) % 256]

\* d[i] of a bytes object is an int
DigestItem(d, i) == [type |-> "int", v |-> d[i + 1]]

\* get_button(byte): ord() accepts a str of length 1 and raises TypeError
\* on an int
get_button(byte) ==
    IF byte.type # "str"
    THEN [exc |-> "TypeError", val |-> 0]
    ELSE [exc |-> "none", val |-> IF byte.v < 6 THEN 1 ELSE (byte.v % 5) + 1]

(***************************************************************************)
(* The state machine.                                                      *)
(***************************************************************************)
readVars == <<seg, tries, segs, segLog, curMax, segFaulty, faults, nreads,
              delivered>>

connVars == <<conn_tries, conn_log, hid, opened>>

sessVars == <<connVars, buttons, slot_name>>

\* no attribute _hid on the session
NoHandle == ""

SessInit ==
    /\ conn_tries = 0 /\ conn_log = <<>> /\ hid = NoHandle /\ opened = <<>>
    /\ buttons = <<>> /\ slot_name = ""

ReadInit ==
    /\ seg = 0 /\ tries = 0 /\ segs = <<>> /\ segLog = <<>> /\ curMax = 0
    /\ segFaulty = FALSE /\ faults = 0 /\ nreads = 0 /\ delivered = 0

Init ==
    /\ os_name \in {"posix", "nt"}
    /\ slotnum = None
    /\ op = "" /\ pc = "idle" /\ args = NoArgs
    /\ written = <<>> /\ chunks = <<>>
    /\ outcome = "none" /\ error = "none" /\ result = <<>>
    /\ ReadInit
    /\ SessInit
    /\ mine = None

\* a method that runs to its end in one step: res is what it did
Complete(o, a, res, cs) ==
    /\ pc = "idle"
    /\ op' = o /\ pc' = "done" /\ args' = a
    /\ written' = res.out /\ chunks' = cs
    /\ outcome' = (IF res.exc = "none" THEN "returned" ELSE "raised")
    /\ error' = res.exc /\ result' = <<>>
    /\ UNCHANGED <<sessVars, mine, os_name, slotnum, readVars>>

SendMessage ==
    \E p \in SendPayloads, m \in MsgArgs, s \in SlotIdArgs, f \in FieldArgs :
        Complete("send_message",
                 [NoArgs EXCEPT !.payload = p, !.msg = m, !.slot_id = s,
                                !.message_field = f],
                 send_message(p, m, s, f), <<>>)

SetRsaKey ==
    \E n \in KeyLens, s \in SlotArgs :
        Complete("set_rsa_key",
                 [NoArgs EXCEPT !.payload = PyStr(Payload(n, 0)), !.slot_id = s,
                                !.key_type = 1],
                 set_rsa_key(1, s, Payload(n, 0)), <<>>)

SetEccKey ==
    \E n \in KeyLens, s \in SlotArgs :
        Complete("set_ecc_key",
                 [NoArgs EXCEPT !.payload = PyBytes(Payload(n, 0)), !.slot_id = s,
                                !.key_type = 1],
                 set_ecc_key(1, s, Payload(n, 0)), <<>>)

\* set_time(timestamp); args.payload holds the timestamp
SetTime ==
    \E ts \in Timestamps :
        Complete("set_time", [NoArgs EXCEPT !.payload = PyInt(ts)],
                 set_time(ts), <<>>)

SendLargeMessage ==
    \E p \in LargePayloads, m \in {None, OKSIGNCHALLENGE} :
        LET res == send_large_message(p, m)
        IN Complete("send_large_message",
                    [NoArgs EXCEPT !.payload = PyBytes(p), !.msg = m],
                    res, res.chunks)

SendLargeMessage2 ==
    \E p \in LargePayloads, m \in {None, OKSIGNCHALLENGE}, s \in SenderSlotIds :
        LET res == send_large_message2(p, m, s)
        IN Complete("send_large_message2",
                    [NoArgs EXCEPT !.payload = PyBytes(p), !.msg = m,
                                   !.slot_id = s],
                    res, res.chunks)

SendLargeMessage3 ==
    \E p \in LargePayloads, m \in {None, OKSETPRIV}, s \in SenderSlotIds :
        LET res == send_large_message3(p, m, s, 1)
        IN Complete("send_large_message3",
                    [NoArgs EXCEPT !.payload = PyBytes(p), !.msg = m,
                                   !.slot_id = s, !.key_type = 1],
                    res, res.chunks)

\* the session the model follows and another OnlyKey object of the process
Sessions == {"self", "other"}

\* slot(): stores its argument in the module-global slotnum, whichever
\* session it is called on
SlotCall ==
    /\ pc = "idle"
    /\ \E who \in Sessions, s \in SlotArgs :
         /\ slotnum' = s
         /\ mine' = (IF who = "self" THEN s ELSE mine)
    /\ UNCHANGED <<sessVars, os_name, op, pc, args, written, chunks, outcome, error,
                   result, readVars>>

\* sign, decrypt and getpub start alike: sleep, then drain one stale report
Begin(o, a) ==
    /\ pc = "idle"
    /\ op' = o /\ pc' = "prelude" /\ args' = a
    /\ UNCHANGED <<sessVars, mine, os_name, slotnum, written, chunks, outcome, error, result,
                   readVars>>

Sign ==
    \E n \in {32, 64} : Begin("sign", [NoArgs EXCEPT !.payload = PyBytes(Payload(n, 0))])

Decrypt ==
    \E n \in {32, 64} : Begin("decrypt", [NoArgs EXCEPT !.payload = PyBytes(Payload(n, 0))])

Getpub == Begin("getpub", NoArgs)

Raise(e) ==
    /\ pc' = "done" /\ outcome' = "raised" /\ error' = e

\* self.read_string(timeout_ms=100): one read, decoded as ASCII; the loop
\* `while not empty` starts with empty = 'a' and never runs
Prelude ==
    /\ pc = "prelude"
    /\ \E stale \in {"empty", "ascii", "binary"} :
         IF stale = "binary"
         THEN Raise("UnicodeDecodeError")
         ELSE pc' = "body" /\ UNCHANGED <<outcome, error>>
    /\ UNCHANGED <<sessVars, mine, os_name, slotnum, op, args, written, chunks, result, readVars>>

\* sign and decrypt: b1 = get_button(d[0]) is evaluated first and raises
Challenge ==
    /\ pc = "body" /\ op \in {"sign", "decrypt"}
    /\ LET d == Sha256(args.payload.data)
           b1 == get_button(DigestItem(d, 0))
           b2 == get_button(DigestItem(d, 15))
           b3 == get_button(DigestItem(d, 31))
       IN IF b1.exc # "none"
          THEN Raise(b1.exc) /\ UNCHANGED buttons
          ELSE /\ buttons' = <<b1.val, b2.val, b3.val>>
               /\ pc' = "send" /\ UNCHANGED <<outcome, error>>
    /\ UNCHANGED <<connVars, slot_name, mine, os_name, slotnum, op, args, written, chunks, result, readVars>>

\* getpub: send_message(msg=Message.OKGETPUBKEY, payload=chr(slotnum))
GetpubRequest ==
    /\ pc = "body" /\ op = "getpub"
    /\ IF slotnum = None
       THEN Raise("NameError") /\ UNCHANGED written
       ELSE /\ written' = written \o
                  send_message(PyStr(<<slotnum>>), OKGETPUBKEY, None, None).out
            /\ pc' = "first" /\ UNCHANGED <<outcome, error>>
    /\ UNCHANGED <<sessVars, mine, os_name, slotnum, op, args, chunks, result, readVars>>

\* what the device hands to one read: nothing, a short report, or the next
\* full-size report.  At most MaxFaultySegments segments of an operation see
\* a read that is not full-size.
DeviceRead(n) ==
    IF n = READ_SIZE THEN ReadValue(n, delivered + 1) ELSE ReadValue(n, 0)

MayRead(n) == n = READ_SIZE \/ segFaulty \/ faults < MaxFaultySegments

\* the bookkeeping of one read of the current segment
Account(n) ==
    /\ nreads' = nreads + 1
    /\ delivered' = (IF n = READ_SIZE THEN delivered + 1 ELSE delivered)
    /\ faults' = (IF n # READ_SIZE /\ ~segFaulty THEN faults + 1 ELSE faults)

\* ok_pubkey1 = ''; while ok_pubkey1 == '': ok_pubkey1 = self.read_bytes(64)
FirstPoll ==
    /\ pc = "first"
    /\ \E n \in ReadSizes :
         /\ MayRead(n)
         /\ Account(n)
         /\ LET v == DeviceRead(n)
            IN IF EqualsEmptyStr(v, ToStr(op))
               THEN /\ segFaulty' = TRUE
                    /\ UNCHANGED <<pc, seg, tries, segs, segLog, curMax>>
               ELSE /\ segs' = <<v>>
                    /\ segLog' = <<[reads |-> nreads + 1, maxn |-> n]>>
                    /\ pc' = "poll" /\ seg' = 2 /\ tries' = 0
                    /\ curMax' = 0 /\ segFaulty' = FALSE
    /\ UNCHANGED <<sessVars, mine, os_name, slotnum, op, args, written, chunks, outcome, error,
                   result>>

\* BreakPoll measuring the hex text of the read instead of its bytes
BreakPoll_HexLen(v, to_str) == PyLen(v, TRUE) = 64

\* the test that leaves `for _ in range(10)` early: len(ok_pubkeyN) == 64
BreakPoll(v, to_str) == PyLen(v, to_str) = 64

\* one iteration of `for _ in range(10): ok_pubkeyN = self.read_bytes(64) ...`
PollSegment ==
    /\ pc = "poll"
    /\ \E n \in ReadSizes :
         /\ MayRead(n)
         /\ Account(n)
         /\ LET v == DeviceRead(n)
                m == IF n > curMax THEN n ELSE curMax
            IN IF BreakPoll(v, ToStr(op)) \/ tries + 1 = RETRIES
               THEN /\ segs' = Append(segs, v)
                    /\ segLog' = Append(segLog, [reads |-> tries + 1, maxn |-> m])
                    /\ tries' = 0 /\ curMax' = 0 /\ segFaulty' = FALSE
                    /\ IF seg = EXPECTED_PARTS
                       THEN pc' = "finish" /\ seg' = seg
                       ELSE pc' = "poll" /\ seg' = seg + 1
               ELSE /\ tries' = tries + 1 /\ curMax' = m
                    /\ segFaulty' = (segFaulty \/ n # READ_SIZE)
                    /\ UNCHANGED <<pc, seg, segs, segLog>>
    /\ UNCHANGED <<sessVars, mine, os_name, slotnum, op, args, written, chunks, outcome, error,
                   result>>

\* SecondMissing testing the first segment instead of the second
SecondMissing_First(ss) == PyNot(ss[1])

\* the only check made on what was read: `if not ok_pubkey2: raise`
SecondMissing(ss) == PyNot(ss[2])

\* getpub, lines 635-647
GetpubFinish ==
    /\ pc = "finish" /\ op = "getpub"
    /\ IF SecondMissing(segs)
       THEN Raise("Exception: failed to read public RSA N from OnlyKey")
            /\ UNCHANGED result
       ELSE /\ result' = Concat(segs)
            /\ pc' = "done" /\ outcome' = "returned" /\ UNCHANGED error
    /\ UNCHANGED <<sessVars, mine, os_name, slotnum, op, args, written, chunks, readVars>>

(***************************************************************************)
(* Connecting: OnlyKey.__init__ and OnlyKey._connect.                      *)
(***************************************************************************)
DEVICE_IDS == {<<5824, 1158>>, <<7504, 24828>>}   \* (0x16C0, 0x0486), (0x1d50, 0x60fc)

Endpoint(v, p, sn, i, u, path) ==
    [vendor_id |-> v, product_id |-> p, serial_number |-> sn,
     interface_number |-> i, usage_page |-> u, path |-> path]

\* what hid.enumerate can list: the keyboard interface and the two kinds of
\* raw interface of an OnlyKey, and a device of another vendor
KeyboardIf == Endpoint(5824, 1158, "1000000000", 0, 1, "kbd")
RawIfNew == Endpoint(5824, 1158, "1000000000", 2, 65451, "raw2")
RawIfOld == Endpoint(7504, 24828, "", 1, 61904, "raw1")
Foreign == Endpoint(1133, 49271, "", 1, 61904, "foreign")

Enumerations ==
    {<<>>, <<Foreign>>, <<KeyboardIf>>, <<KeyboardIf, RawIfNew>>,
     <<Foreign, RawIfOld>>, <<RawIfNew, RawIfOld>>}

\* the paths hid.Device fails to open
OpenFailures == {{}, {"raw1"}}

\* the test of lines 178-186 that selects an endpoint
Matches(d) ==
    /\ <<d.vendor_id, d.product_id>> \in DEVICE_IDS
    /\ IF d.serial_number = "1000000000"
       THEN d.usage_page = 65451 \/ d.interface_number = 2
       ELSE d.usage_page = 61904 \/ d.interface_number = 1

\* the endpoints of an enumeration that the test selects
RECURSIVE Matching(_)
Matching(devs) ==
    IF devs = <<>> THEN <<>>
    ELSE (IF Matches(Head(devs)) THEN <<Head(devs)>> ELSE <<>>)
         \o Matching(Tail(devs))

\* the loop of _connect over an enumeration: every selected endpoint is
\* opened and stored in self._hid; a failing open ends the call with
\* OnlyKeyUnavailableException, keeping what was opened and stored before
RECURSIVE ConnectLoop(_, _, _, _)
ConnectLoop(devs, failing, h, o) ==
    IF devs = <<>> THEN [exc |-> "none", hid |-> h, opened |-> o]
    ELSE LET d == Head(devs)
         IN IF ~Matches(d) THEN ConnectLoop(Tail(devs), failing, h, o)
            ELSE IF d.path \in failing
            THEN [exc |-> "OnlyKeyUnavailableException", hid |-> h, opened |-> o]
            ELSE ConnectLoop(Tail(devs), failing, d.path, Append(o, d.path))

\* _connect: enum_fails is hid.enumerate raising
_connect(enum_fails, devs, failing, h, o) ==
    IF enum_fails
    THEN [exc |-> "OnlyKeyUnavailableException", hid |-> h, opened |-> o]
    ELSE ConnectLoop(devs, failing, h, o)

\* OnlyKey(connect=...): with connect=False nothing is done
Construct ==
    /\ pc = "idle"
    /\ \E connect \in BOOLEAN :
         /\ op' = "__init__"
         /\ IF connect
            THEN /\ conn_tries' = 5 /\ pc' = "connect"
                 /\ UNCHANGED outcome
            ELSE /\ pc' = "done" /\ outcome' = "returned"
                 /\ UNCHANGED conn_tries
    /\ UNCHANGED <<conn_log, hid, opened, buttons, slot_name, mine, os_name,
                   slotnum, args, written, chunks, error, result, readVars>>

\* what __init__ raises after the loop: `raise e` names the target of
\* `except Exception as e`, which is unbound once the except block is left
RaiseAfterLoop == "UnboundLocalError"

\* one iteration of `while tries > 0` in __init__
ConnectAttempt ==
    /\ pc = "connect"
    /\ \E enum_fails \in BOOLEAN, devs \in Enumerations, failing \in OpenFailures :
         LET r == _connect(enum_fails, devs, failing, hid, opened)
             n == IF enum_fails THEN 0 ELSE Len(Matching(devs))
         IN /\ conn_log' = Append(conn_log, [exc |-> r.exc, matched |-> n])
            /\ hid' = r.hid /\ opened' = r.opened
            /\ IF r.exc = "none"
               THEN /\ pc' = "done" /\ outcome' = "returned"
                    /\ UNCHANGED <<conn_tries, error>>
               ELSE /\ conn_tries' = conn_tries - 1
                    /\ IF conn_tries - 1 > 0
                       THEN UNCHANGED <<pc, outcome, error>>
                       ELSE Raise(RaiseAfterLoop)
    /\ UNCHANGED <<buttons, slot_name, mine, os_name, slotnum, op, args,
                   written, chunks, result, readVars>>

\* Slot(num): self.name = SLOTS_NAME[num], a dict lookup
SlotNew ==
    /\ pc = "idle"
    /\ \E num \in 0..MaxSlotNum :
         /\ op' = "Slot" /\ pc' = "done"
         /\ args' = [NoArgs EXCEPT !.slot_id = num]
         /\ IF num \in DOMAIN SLOTS_NAME
            THEN /\ slot_name' = SLOTS_NAME[num]
                 /\ outcome' = "returned" /\ UNCHANGED error
            ELSE /\ outcome' = "raised" /\ error' = "KeyError"
                 /\ UNCHANGED slot_name
    /\ UNCHANGED <<connVars, buttons, mine, os_name, slotnum, written, chunks,
                   result, readVars>>

\* the method is over; the session is ready for the next call
Return ==
    /\ pc = "done"
    /\ op' = "" /\ pc' = "idle" /\ args' = NoArgs
    /\ written' = <<>> /\ chunks' = <<>>
    /\ outcome' = "none" /\ error' = "none" /\ result' = <<>>
    /\ seg' = 0 /\ tries' = 0 /\ segs' = <<>> /\ segLog' = <<>> /\ curMax' = 0
    /\ segFaulty' = FALSE /\ faults' = 0 /\ nreads' = 0 /\ delivered' = 0
    /\ conn_tries' = 0 /\ conn_log' = <<>> /\ hid' = NoHandle /\ opened' = <<>>
    /\ buttons' = <<>> /\ slot_name' = ""
    /\ UNCHANGED <<mine, os_name, slotnum>>

Next ==
    \/ SendMessage
    \/ SetRsaKey
    \/ SetEccKey
    \/ SetTime
    \/ SendLargeMessage
    \/ SendLargeMessage2
    \/ SendLargeMessage3
    \/ SlotCall
    \/ Sign
    \/ Decrypt
    \/ Getpub
    \/ Prelude
    \/ Challenge
    \/ GetpubRequest
    \/ FirstPoll
    \/ PollSegment
    \/ GetpubFinish
    \/ Construct
    \/ ConnectAttempt
    \/ SlotNew
    \/ Return

Spec == Init /\ [][Next]_vars

(***************************************************************************)
(* Vocabulary of the properties.                                           *)
(***************************************************************************)
Done(o) == pc = "done" /\ op = o

ChunkedSenders == {"send_large_message", "send_large_message2"}

\* marker bytes in front of the chunk data
Markers(o) == IF o = "send_large_message" THEN 1 ELSE 2

\* data bytes a full frame of the sender carries
Capacity(o) == IF o = "send_large_message" THEN 58 ELSE 57

CeilDiv(n, d) == (n + d - 1) \div d

\* a frame as the receiver reads it: header, message tag, k marker bytes
\* (the last one is the size or 255), then the data
FrameMarker(frame, k) == frame[Len(MESSAGE_HEADER) + 1 + k]

FrameData(frame, k, cap) ==
    LET m == FrameMarker(frame, k)
        first == Len(MESSAGE_HEADER) + 2 + k
    IN SubSeq(frame, first, first - 1 + (IF m = 255 THEN cap ELSE m))

RECURSIVE Reassemble(_, _, _)
Reassemble(frames, k, cap) ==
    IF frames = <<>> THEN <<>>
    ELSE FrameData(Head(frames), k, cap) \o Reassemble(Tail(frames), k, cap)

\* C1: a chunked send of payload p writes one frame per chunk in payload
\* order, ceil(len(p) / capacity) frames in all, and the chunk data of the
\* frames, read back with the marker delimiting it, is p.
C1_ChunkedRoundTrip ==
    (pc = "done" /\ op \in ChunkedSenders /\ outcome = "returned") =>
        LET p == args.payload.data
            k == Markers(op)
            cap == Capacity(op)
            h == Len(MESSAGE_HEADER)
        IN /\ Len(written) = CeilDiv(Len(p), cap)
           /\ Reassemble(written, k, cap) = p
           /\ \A j \in 1..Len(written) :
                /\ SubSeq(written[j], 1, h + 1) = MESSAGE_HEADER \o <<args.msg>>
                /\ FrameData(written[j], k, cap)
                     = SubSeq(p, (j - 1) * cap + 1, Min(j * cap, Len(p)))

C1_Witness ==
    /\ Done("send_large_message2") /\ outcome = "returned"
    /\ Len(args.payload.data) = 117 /\ Len(written) = 3
    /\ Reassemble(written, 2, 57) = args.payload.data

\* C2: in a chunked send of a non-empty payload every frame but the last
\* carries the marker 255 and the last frame carries the length of its
\* chunk data, never 255.
C2_LastMarkerIsLength ==
    (pc = "done" /\ op \in ChunkedSenders /\ outcome = "returned"
        /\ Len(written) > 0) =>
        LET k == Markers(op)
            n == Len(written)
        IN /\ \A j \in 1..(n - 1) : FrameMarker(written[j], k) = 255
           /\ FrameMarker(written[n], k) = Len(chunks[n])
           /\ FrameMarker(written[n], k) # 255

\* the report the caller asked for: every given field is present
GivenBytes(a) ==
    MESSAGE_HEADER
    \o (IF a.msg # None THEN <<a.msg>> ELSE <<>>)
    \o (IF a.slot_id # None THEN <<a.slot_id>> ELSE <<>>)
    \o (IF a.message_field # None THEN <<a.message_field>> ELSE <<>>)
    \o (IF a.payload.kind = "str" THEN Utf8(a.payload.data) ELSE a.payload.data)

\* C3: when header, message tag, slot id, field tag and payload fit in one
\* report, send_message writes exactly those bytes, each given field
\* present, followed by zeros up to the fixed report size.
C3_ReportLayout ==
    (Done("send_message") /\ args.payload.kind # "other"
        /\ Len(GivenBytes(args)) <= MAX_INPUT_REPORT_SIZE) =>
        written = <<GivenBytes(args)
                    \o Zeros(MAX_INPUT_REPORT_SIZE - Len(GivenBytes(args)))>>

\* the unpadded length of the report a send_message-based call builds
Unpadded ==
    IF op = "send_message" THEN Len(GivenBytes(args))
    ELSE Len(MESSAGE_HEADER) + 1 + 2 + Len(args.payload.data)

\* C4: a report longer than the fixed report size is refused with an error
\* and nothing is written; no written report has another length than the
\* fixed report size.
C4_OversizeRefused ==
    /\ (pc = "done" /\ op \in {"send_message", "set_rsa_key", "set_ecc_key"}
          /\ Unpadded > MAX_INPUT_REPORT_SIZE) =>
            (outcome = "raised" /\ written = <<>>)
    /\ \A i \in 1..Len(written) : Len(written[i]) = MAX_INPUT_REPORT_SIZE

\* segment i was read RETRIES times and no read returned a full report
Starved(i) ==
    /\ i <= Len(segLog)
    /\ segLog[i].reads = RETRIES /\ segLog[i].maxn < READ_SIZE

\* segment i was read RETRIES times and every read returned nothing
NeverArrived(i) ==
    /\ i <= Len(segLog)
    /\ segLog[i].reads = RETRIES /\ segLog[i].maxn = 0

\* reports 1..n of the device, one after the other
Stream(n) ==
    [i \in 1..(READ_SIZE * n) |->
        (31 * (((i - 1) \div READ_SIZE) + 1) + ((i - 1) % READ_SIZE) + 1) % 256]

\* C5: in getpub, when every read after the request returns a full 64-byte
\* report, exactly 8 reads are used and the 512 bytes returned are those 8
\* reports in the order read.
C5_GetpubAllFull ==
    (Done("getpub") /\ Len(written) = 1 /\ faults = 0) =>
        /\ outcome = "returned"
        /\ nreads = 8
        /\ Len(result) = 512
        /\ result = Stream(8)

C5_Witness ==
    /\ Done("getpub") /\ Len(written) = 1 /\ faults = 0
    /\ outcome = "returned" /\ nreads = 8 /\ Len(result) = 512

\* C6: in sign and getpub, when all 10 reads of one of the segments 2..8
\* return fewer than 64 bytes, the operation fails and returns no buffer.
C6_StarvedSegmentFails ==
    (pc = "done" /\ op \in {"sign", "getpub"}
        /\ \E i \in 2..EXPECTED_PARTS : Starved(i)) =>
        (outcome = "raised" /\ result = <<>>)

\* C7: in sign, decrypt and getpub, when every poll for the first segment
\* returns nothing, the operation fails; it returns no result built on an
\* empty first segment.
C7_EmptyFirstSegmentFails ==
    (op \in {"sign", "decrypt", "getpub"} /\ Len(segs) >= 1 /\ segs[1].n = 0) =>
        outcome # "returned"

\* C8 as stated: every chunk of a chunked sender carries at most
\* MAX_LARGE_PAYLOAD_SIZE - k data bytes, k the number of marker bytes.
C8_ChunkAtMostMaxMinusK ==
    (pc = "done" /\ op \in ChunkedSenders \cup {"send_large_message3"}) =>
        \A j \in 1..Len(chunks) :
            Len(chunks[j]) <= MAX_LARGE_PAYLOAD_SIZE - Markers(op)

\* C8 amended: every chunk of a chunked sender carries at most
\* MAX_LARGE_PAYLOAD_SIZE - (k - 1) data bytes: 58 with one marker byte,
\* 57 with two.
C8_ChunkAtMostCapacity ==
    (pc = "done" /\ op \in ChunkedSenders \cup {"send_large_message3"}) =>
        \A j \in 1..Len(chunks) :
            /\ Len(chunks[j]) <= MAX_LARGE_PAYLOAD_SIZE - (Markers(op) - 1)
            /\ Len(chunks[j]) <= (IF op = "send_large_message" THEN 58 ELSE 57)

C8_Witness ==
    /\ Done("send_large_message") /\ outcome = "returned"
    /\ Len(chunks) = 3 /\ Len(chunks[1]) = 58 /\ Len(chunks[3]) = 1

\* C9: in sign and getpub, when all 10 reads of the second segment return
\* nothing, the operation raises and returns no result, whatever the later
\* segments returned.
C9_SecondSegmentMissingRaises ==
    (op \in {"sign", "getpub"} /\ NeverArrived(2)) =>
        /\ outcome # "returned" /\ result = <<>>
        /\ pc = "done" => (outcome = "raised" /\ error # "none")

C9_Witness ==
    /\ Done("getpub") /\ NeverArrived(2) /\ Len(segs) = EXPECTED_PARTS
    /\ outcome = "raised" /\ result = <<>>

\* C10: decrypt, once the stale report is drained, ends either by returning
\* a buffer reassembled from 8 segments or by failing because the second
\* segment never arrived.
C10_DecryptReassembles ==
    (Done("decrypt") /\ error # "UnicodeDecodeError") =>
        \/ outcome = "returned" /\ Len(segs) = EXPECTED_PARTS
        \/ outcome = "raised" /\ NeverArrived(2)

\* every attempt of the constructor raised
AllAttemptsRaised == \A i \in 1..Len(conn_log) : conn_log[i].exc # "none"

\* C11: when all connection attempts raise, the constructor makes exactly 5
\* attempts and then fails with OnlyKeyUnavailable; an attempt that succeeds
\* is the last one and the constructor returns at once.
C11_ConstructorRetries ==
    (Done("__init__") /\ conn_log # <<>>) =>
        /\ AllAttemptsRaised =>
             /\ Len(conn_log) = 5 /\ outcome = "raised"
             /\ error = "OnlyKeyUnavailableException"
        /\ \A k \in 1..Len(conn_log) :
             conn_log[k].exc = "none" =>
                 k = Len(conn_log) /\ outcome = "returned"

\* the enumeration of attempt i succeeded and listed no matching endpoint
Absent(i) == conn_log[i].exc = "none" /\ conn_log[i].matched = 0

\* C12: when every enumeration succeeds but lists no matching endpoint, the
\* constructor fails after exactly 5 attempts; the constructor never returns
\* with no open device handle.
C12_AbsentDeviceFails ==
    (Done("__init__") /\ conn_log # <<>>) =>
        /\ (\A i \in 1..Len(conn_log) : Absent(i)) =>
             Len(conn_log) = 5 /\ outcome = "raised"
        /\ outcome = "returned" => hid # NoHandle

\* the button of a digest byte
Button(b) == IF b < 6 THEN 1 ELSE (b % 5) + 1

\* C13: once sign or decrypt is past the challenge step, the three buttons
\* are those of digest bytes 0, 15 and 31: 1 for a byte below 6, else
\* (byte mod 5) + 1, each in 1..5.
C13_ChallengeButtons ==
    (op \in {"sign", "decrypt"} /\ pc \notin {"prelude", "body"}
       /\ error # "UnicodeDecodeError") =>
        LET d == Sha256(args.payload.data)
        IN /\ buttons = <<Button(d[1]), Button(d[16]), Button(d[32])>>
           /\ \A i \in 1..Len(buttons) : buttons[i] \in 1..5

AllSenders == ChunkedSenders \cup {"send_large_message3"}

\* the chunked senders called without a message tag fail with the
\* missing-message error and write nothing
MissingMsgFailsFast ==
    (pc = "done" /\ op \in AllSenders /\ args.msg = None) =>
        /\ outcome = "raised" /\ error = "Exception: Missing msg"
        /\ written = <<>>

Digit == <<"1", "2", "3", "4", "5", "6", "7", "8", "9">>

Decimal(n) == IF n < 10 THEN Digit[n] ELSE Digit[n \div 10] \o
                  (IF n % 10 = 0 THEN "0" ELSE Digit[n % 10])

\* the name the slot table documents for slot n
SlotLabel(n) ==
    IF n \in 1..6 THEN Decimal(n) \o "a"
    ELSE IF n \in 7..12 THEN Decimal(n - 6) \o "b"
    ELSE IF n \in 25..28 THEN "RSA Key " \o Decimal(n - 24)
    ELSE "ECC Key " \o Decimal(n - 28)

\* C15: the slot-name lookup is defined exactly on 1..12, 25..28 and 29..60
\* and fails with the UnknownSlot error on every other number.
C15_SlotLookup ==
    Done("Slot") =>
        IF args.slot_id \in (1..12) \cup (25..60)
        THEN outcome = "returned" /\ slot_name = SlotLabel(args.slot_id)
        ELSE outcome = "raised" /\ error = "UnknownSlot"

\* C16: in sign, each of the segments 2..8 is polled at most 10 times, and
\* when every read returns a full 64-byte report sign uses exactly 8 result
\* reads and returns those 8 reports in the order read.
C16_SignPolling ==
    (Done("sign") /\ error # "UnicodeDecodeError") =>
        /\ \A i \in 2..Len(segLog) : segLog[i].reads <= RETRIES
        /\ faults = 0 =>
             /\ outcome = "returned" /\ nreads = EXPECTED_PARTS
             /\ result = Stream(EXPECTED_PARTS)

\* the message tag sign and decrypt send the payload under
TagOf(o) == IF o = "sign" THEN OKSIGNCHALLENGE ELSE OKDECRYPT

\* C17: sign and decrypt derive the challenge code, then write every chunk
\* of the payload, then wait for the confirmation, and only then read: no
\* result is read before all chunks are written, and an operation that is
\* over has derived the code, written the chunks and read.
C17_FixedOrder ==
    (op \in {"sign", "decrypt"} /\ slotnum # None) =>
        LET all == send_large_message2(args.payload.data, TagOf(op), slotnum).out
        IN /\ nreads > 0 => written = all
           /\ written # <<>> => buttons # <<>>
           /\ (pc = "done" /\ error # "UnicodeDecodeError") =>
                 /\ buttons # <<>> /\ written = all /\ nreads > 0

\* the request getpub writes for slot s
GetpubFrame(s) ==
    ZeroPad(MESSAGE_HEADER \o <<OKGETPUBKEY>> \o Utf8(<<s>>))

\* C18: the frames an operation of this session writes carry the slot this
\* session selected with slot(), whatever another session selected since,
\* and no operation writes a frame when this session selected no slot.
C18_SlotIsPerSession ==
    (op \in {"sign", "decrypt", "getpub"} /\ written # <<>>) =>
        /\ mine # None
        /\ op = "getpub" => written = <<GetpubFrame(mine)>>
        /\ op # "getpub" =>
             \A j \in 1..Len(written) :
                 written[j][Len(MESSAGE_HEADER) + 2] = mine

\* the frame send_large_message3 owes to chunk j of payload p
BatchFrame(p, j, a) ==
    ZeroPad(MESSAGE_HEADER \o <<a.msg, a.slot_id, a.key_type>>
            \o SubSeq(p, 57 * (j - 1) + 1, Min(57 * j, Len(p))))

\* C19: send_large_message3 writes one frame per 57-byte chunk of the
\* payload, in order, each with the slot id and the key type in front of
\* the chunk, and does not fail for any payload.
C19_BatchSendsEveryChunk ==
    (Done("send_large_message3") /\ args.msg # None) =>
        LET p == args.payload.data
        IN /\ outcome = "returned"
           /\ Len(written) = CeilDiv(Len(p), 57)
           /\ \A j \in 1..Len(written) : written[j] = BatchFrame(p, j, args)

\* the fixed report size of the platform variant
ReportSize == IF os_name = "nt" THEN 65 ELSE 64

\* C20: on both platform variants every frame written by send_large_message
\* and send_large_message2 has exactly the fixed report size, and header,
\* message tag, marker bytes and a maximal chunk fit in one report.
C20_ChunkFramesHaveReportSize ==
    (pc = "done" /\ op \in ChunkedSenders) =>
        /\ \A j \in 1..Len(written) : Len(written[j]) = ReportSize
        /\ Len(MESSAGE_HEADER) + 1 + Markers(op) + Capacity(op) <= ReportSize
        /\ \A j \in 1..Len(chunks) :
             Len(MESSAGE_HEADER) + 1 + Markers(op) + Len(chunks[j]) <= ReportSize

C20_Witness ==
    /\ Done("send_large_message2") /\ os_name = "nt" /\ outcome = "returned"
    /\ Len(written) = 3 /\ Len(chunks[1]) = 57 /\ Len(written[1]) = 65
    /\ FrameMarker(written[1], 2) = 255

\* the endpoints the enumerations list
Enumerated == UNION {{devs[i] : i \in 1..Len(devs)} : devs \in Enumerations}

\* a known OnlyKey id on the interface the client talks to
KnownInterface(d) ==
    /\ \/ (d.vendor_id = 5824 /\ d.product_id = 1158)
       \/ (d.vendor_id = 7504 /\ d.product_id = 24828)
    /\ IF d.serial_number = "1000000000"
       THEN d.usage_page = 65451 \/ d.interface_number = 2
       ELSE d.usage_page = 61904 \/ d.interface_number = 1

\* the handles that are open
OpenHandles == {opened[i] : i \in 1..Len(opened)}

\* C21: after a connection attempt the session holds at most one open
\* handle, the handle it owns was opened on an enumerated endpoint with a
\* known OnlyKey id and the matching interface, and no handle that was
\* opened is left open without being the one the session owns.
C21_OneEndpointSelected ==
    (op = "__init__" /\ conn_log # <<>>) =>
        /\ Len(opened) <= 1
        /\ hid # NoHandle =>
             \E d \in Enumerated : d.path = hid /\ KnownInterface(d)
        /\ OpenHandles \subseteq {hid}

\* bytes of the minimal big-endian base-256 form of n
ByteLen(n) ==
    IF n < 256 THEN 1 ELSE IF n < 65536 THEN 2 ELSE IF n < 16777216 THEN 3 ELSE 4

RECURSIVE BigEndian(_)
BigEndian(b) ==
    IF b = <<>> THEN 0 ELSE 256 * BigEndian(SubSeq(b, 1, Len(b) - 1)) + b[Len(b)]

\* the payload bytes of the report set_time wrote
TimeBytes ==
    SubSeq(written[1], Len(MESSAGE_HEADER) + 2,
           Len(MESSAGE_HEADER) + 1 + ByteLen(args.payload.data[1]))

\* C22: set_time writes exactly one OKSETTIME report whose payload is the
\* minimal big-endian base-256 form of the timestamp: the bytes read as a
\* big-endian number are the timestamp, timestamp 0 is a single 0 byte, no
\* other timestamp has a leading zero byte, and zeros fill the report.
C22_SetTimeBigEndian ==
    Done("set_time") =>
        LET ts == args.payload.data[1]
            H == Len(MESSAGE_HEADER)
        IN /\ outcome = "returned" /\ Len(written) = 1
           /\ Len(written[1]) = MAX_INPUT_REPORT_SIZE
           /\ SubSeq(written[1], 1, H + 1) = MESSAGE_HEADER \o <<228>>
           /\ BigEndian(TimeBytes) = ts
           /\ \A i \in 1..Len(TimeBytes) : TimeBytes[i] \in 0..255
           /\ ts = 0 => TimeBytes = <<0>>
           /\ ts > 0 => TimeBytes[1] # 0
           /\ \A i \in (H + 2 + Len(TimeBytes))..Len(written[1]) :
                  written[1][i] = 0

C22_Witness ==
    /\ Done("set_time") /\ args.payload.data[1] = 256
    /\ outcome = "returned" /\ TimeBytes = <<1, 0>>

====
